---- MODULE Spec2Model ----
(***************************************************************************)
(* Flappy Dragon (src/src/main.rs): the per-frame state machine            *)
(* State::tick with its three handlers main_menu / play / dead, the player *)
(* physics (gravity_and_move, flap) and the obstacle (new, hit_obstacle).  *)
(*                                                                         *)
(* Numbers.  x, y, score, size, gap_y are i32; every value the model       *)
(* reaches is far from the i32 limits, so they are plain integers.         *)
(* velocity is an f32.  Every velocity the program can hold is an integer  *)
(* multiple of 2^-26 (0.2f32 = 13421773 * 2^-26, and f32 sums of such      *)
(* values are again such values), so a velocity is modelled by that        *)
(* integer and f32 addition by exact addition followed by the IEEE-754     *)
(* round-to-nearest-even to a 24 bit significand (F32Add).                 *)
(* frame_time is an f32 holding sums of whole milliseconds below 2^24,     *)
(* which f32 adds exactly; it is modelled by the integer.                  *)
(***************************************************************************)
EXTENDS Integers, FiniteSets, Sequences, TLC

\* ------------------------------------------------------------- constants
SCREEN_WIDTH == 80
SCREEN_HEIGHT == 50
FRAME_DURATION == 75

START_X == 5
START_Y == 25

GAP_Y_MIN == 10       \* random.range(10, 40): 10 inclusive ...
GAP_Y_END == 40       \* ... 40 exclusive
BASE_GAP_SIZE == 20
MIN_GAP_SIZE == 2

\* f32 values in units of 2^-26
Unit == 2^26
GRAVITY == 13421773                 \* 0.2f32 = 0x3E4CCCCD = 13421773 * 2^-26
TERMINAL_VELOCITY == 2 * Unit       \* 2.0
FLAP_VELOCITY == (-2) * Unit        \* -2.0
ZERO_VELOCITY == 0 * Unit           \* 0.0

\* ----------------------------------------------------------------- bounds
MaxX == 26            \* Spec: the simulation step is taken only while player.x < MaxX
MaxRunX == 82         \* SpecRun: the same, far enough to pass the first obstacle
NumGaps == 2          \* how many of the 30 possible gap rows the generator draws
MaxScore == 22        \* SpecUnit: scores 0 .. MaxScore

\* the gap rows drawn: NumGaps rows spread evenly over GAP_Y_MIN .. GAP_Y_END-1
GapYs == { GAP_Y_MIN + (i * (GAP_Y_END - 1 - GAP_Y_MIN)) \div (NumGaps - 1) :
             i \in 0 .. (NumGaps - 1) }

\* ctx.key: no key, or one key; "Other" stands for every key but P, Q, Space
Keys == {"None", "P", "Q", "Space", "Other"}

\* ctx.frame_time_ms of a frame, in whole milliseconds
ElapsedMs == {75, 300}

\* ------------------------------------------------------------- arithmetic
Max(a, b) == IF a >= b THEN a ELSE b
Abs(a) == IF a >= 0 THEN a ELSE -a

\* unit in the last place of an f32 of magnitude a (a >= 0, in units of 2^-26),
\* itself in units of 2^-26; magnitudes below 2^-2 have all their multiples
\* of 2^-26 representable
RECURSIVE Ulp(_)
Ulp(a) == IF a < 2^24 THEN 1 ELSE 2 * Ulp(a \div 2)

\* round an exact value to the nearest f32, ties to even
F32Round(s) ==
    LET u == Ulp(Abs(s))
        q == s \div u
        r == s % u
    IN  IF 2 * r < u THEN q * u
        ELSE IF 2 * r > u THEN (q + 1) * u
        ELSE IF q % 2 = 0 THEN q * u
        ELSE (q + 1) * u

\* f32 `+`
F32Add(a, b) == F32Round(a + b)

\* `v as i32`: truncation toward zero
AsI32(v) == IF v >= 0 THEN v \div Unit ELSE -((-v) \div Unit)

\* ------------------------------------------------------------------ state
VARIABLES
    mode,         \* State.mode
    player,       \* State.player: [x, y, velocity]
    obstacle,     \* State.obstacle: [x, gap_y, size]
    score,        \* State.score
    frame_time,   \* State.frame_time
    quitting,     \* ctx.quitting
    last          \* the frame just handled (Handled)

vars == <<mode, player, obstacle, score, frame_time, quitting, last>>

\* ---------------------------------------------------------------- Obstacle
\* (mutant of GapSize: the floor of 2 forgotten)
GapSizeNoFloor(s) == BASE_GAP_SIZE - s

\* size: i32::max(2, 20 - score)
GapSize(s) == Max(MIN_GAP_SIZE, BASE_GAP_SIZE - s)

\* (mutant of ObstacleNew: the gap is sized by the score before the increment)
ObstacleNewStaleScore(x, s, g) == [x |-> x, gap_y |-> g, size |-> GapSize(s - 1)]

\* Obstacle::new(x, score), g the value random.range(10, 40) returned
ObstacleNew(x, s, g) == [x |-> x, gap_y |-> g, size |-> GapSize(s)]

\* let half_size = self.size / 2  (i32 division, size >= 2 > 0)
HalfSize(o) == o.size \div 2

\* (mutant of HitObstacle: the gap boundary rows collide)
HitObstacleOnBoundary(o, p) ==
    LET half_size == HalfSize(o)
    IN  p.x = o.x /\ (p.y <= o.gap_y - half_size \/ p.y >= o.gap_y + half_size)

\* Obstacle::hit_obstacle(&self, player)
HitObstacle(o, p) ==
    LET half_size == HalfSize(o)
        does_x_match == p.x = o.x
        player_above_gap == p.y < o.gap_y - half_size
        player_below_gap == p.y > o.gap_y + half_size
    IN  does_x_match /\ (player_above_gap \/ player_below_gap)

\* ------------------------------------------------------------------ Player
\* Player::new(x, y)
PlayerNew(x, y) == [x |-> x, y |-> y, velocity |-> ZERO_VELOCITY]

\* if self.velocity < 2.0 { self.velocity += 0.2 }
Gravity(v) == IF v < TERMINAL_VELOCITY THEN F32Add(v, GRAVITY) ELSE v

\* (mutant of GravityAndMove: the clamp at row 0 forgotten)
GravityAndMoveNoClamp(p) ==
    LET v == Gravity(p.velocity)
    IN  [x |-> p.x + 1, y |-> p.y + AsI32(v), velocity |-> v]

\* (mutant of GravityAndMove: the distance is not advanced)
GravityAndMoveInPlace(p) ==
    LET v == Gravity(p.velocity)
        y == p.y + AsI32(v)
    IN  [x |-> p.x, y |-> IF y < 0 THEN 0 ELSE y, velocity |-> v]

\* Player::gravity_and_move(&mut self)
GravityAndMove(p) ==
    LET v == Gravity(p.velocity)
        y == p.y + AsI32(v)
    IN  [x |-> p.x + 1, y |-> IF y < 0 THEN 0 ELSE y, velocity |-> v]

\* whether gravity_and_move takes its `if self.y < 0` branch
Clamps(p) == p.y + AsI32(Gravity(p.velocity)) < 0

\* (mutant of Flap: the flap also lifts the player at once)
FlapMovesUp(p) == [p EXCEPT !.velocity = FLAP_VELOCITY, !.y = Max(0, p.y - 2)]

\* Player::flap(&mut self)
Flap(p) == [p EXCEPT !.velocity = FLAP_VELOCITY]

\* ------------------------------------------------------------------- State
\* the frame just handled
Handled(h, key, step, pass, clamp) ==
    [handler |-> h, key |-> key, stepped |-> step, passed |-> pass, clamped |-> clamp]

\* State::new(), g the row the generator drew
Init ==
    /\ mode = "Menu"
    /\ player = PlayerNew(START_X, START_Y)
    /\ frame_time = 0
    /\ \E g \in GapYs : obstacle = ObstacleNew(SCREEN_WIDTH, 0, g)
    /\ score = 0
    /\ quitting = FALSE
    /\ last = Handled("new", "None", FALSE, FALSE, FALSE)

\* (mutant of Restart: the score is not reset)
RestartKeepsScore ==
    /\ player' = PlayerNew(START_X, START_Y)
    /\ frame_time' = 0
    /\ \E g \in GapYs : obstacle' = ObstacleNew(SCREEN_WIDTH, 0, g)
    /\ mode' = "Playing"
    /\ score' = score

\* (mutant of Restart: the obstacle is placed relative to the player)
RestartObstacleAhead ==
    /\ player' = PlayerNew(START_X, START_Y)
    /\ frame_time' = 0
    /\ \E g \in GapYs : obstacle' = ObstacleNew(START_X + SCREEN_WIDTH, 0, g)
    /\ mode' = "Playing"
    /\ score' = 0

\* State::restart(&mut self)
Restart ==
    /\ player' = PlayerNew(START_X, START_Y)
    /\ frame_time' = 0
    /\ \E g \in GapYs : obstacle' = ObstacleNew(SCREEN_WIDTH, 0, g)
    /\ mode' = "Playing"
    /\ score' = 0

\* (mutant of KeyMatch: quitting also returns to the menu)
KeyMatchQuitToMenu(key) ==
    IF key = "P" THEN Restart /\ UNCHANGED quitting
    ELSE IF key = "Q" THEN quitting' = TRUE /\ mode' = "Menu"
                           /\ UNCHANGED <<player, obstacle, score, frame_time>>
    ELSE UNCHANGED <<mode, player, obstacle, score, frame_time, quitting>>

\* if let Some(key) = ctx.key { match key { P => restart, Q => quitting, _ => {} } }
KeyMatch(key) ==
    IF key = "P" THEN Restart /\ UNCHANGED quitting
    ELSE IF key = "Q" THEN quitting' = TRUE
                           /\ UNCHANGED <<mode, player, obstacle, score, frame_time>>
    ELSE UNCHANGED <<mode, player, obstacle, score, frame_time, quitting>>

\* State::main_menu(&mut self, ctx)
MainMenu(key) ==
    /\ KeyMatch(key)
    /\ last' = Handled("main_menu", key, FALSE, FALSE, FALSE)

\* (mutant of Dead: any unlisted key leads back to the menu)
DeadBackToMenu(key) ==
    /\ IF key = "Other"
         THEN mode' = "Menu" /\ UNCHANGED <<player, obstacle, score, frame_time, quitting>>
         ELSE KeyMatch(key)
    /\ last' = Handled("dead", key, FALSE, FALSE, FALSE)

\* State::dead(&mut self, ctx)
Dead(key) ==
    /\ KeyMatch(key)
    /\ last' = Handled("dead", key, FALSE, FALSE, FALSE)

\* (mutant of GameOver: the bottom row itself is fatal)
GameOverOnBottomRow(p, o) == p.y >= SCREEN_HEIGHT \/ HitObstacle(o, p)

\* (mutant of GameOver: the collision test forgotten)
GameOverFallOnly(p, o) == p.y > SCREEN_HEIGHT

\* (mutant of GameOver: the fall test forgotten)
GameOverCollisionOnly(p, o) == HitObstacle(o, p)

\* self.player.y > SCREEN_HEIGHT || self.obstacle.hit_obstacle(&self.player)
GameOver(p, o) == p.y > SCREEN_HEIGHT \/ HitObstacle(o, p)

\* (mutant of Passed: reaching the obstacle's column counts as passing it)
PassedOnColumn(p, o) == p.x >= o.x

\* (mutant of Passed: the obstacle is replaced one column late)
PassedLate(p, o) == p.x > o.x + 1

\* self.player.x > self.obstacle.x
Passed(p, o) == p.x > o.x

\* (mutant of GateOpen: the gate opens on reaching the threshold)
GateOpenAtThreshold(ft) == ft >= FRAME_DURATION

\* self.frame_time > FRAME_DURATION
GateOpen(ft) == ft > FRAME_DURATION

\* (mutant of Play: the start key is honoured while playing)
PlayRestartsOnP(key, ms) ==
    LET ft == frame_time + ms
        step == GateOpen(ft)
        p1 == IF step THEN GravityAndMove(player) ELSE player
        p2 == IF key = "Space" THEN Flap(p1) ELSE p1
        pass == Passed(p2, obstacle)
    IN  /\ IF key = "P"
             THEN Restart
             ELSE /\ frame_time' = IF step THEN 0 ELSE ft
                  /\ player' = p2
                  /\ score' = IF pass THEN score + 1 ELSE score
                  /\ IF pass
                       THEN \E g \in GapYs :
                              obstacle' = ObstacleNew(p2.x + SCREEN_WIDTH, score + 1, g)
                       ELSE obstacle' = obstacle
                  /\ mode' = IF GameOver(p2, obstacle') THEN "End" ELSE "Playing"
        /\ UNCHANGED quitting
        /\ last' = Handled("play", key, step, pass, step /\ Clamps(player))

\* State::play(&mut self, ctx)
Play(key, ms) ==
    LET ft == frame_time + ms
        step == GateOpen(ft)
        p1 == IF step THEN GravityAndMove(player) ELSE player
        p2 == IF key = "Space" THEN Flap(p1) ELSE p1
        pass == Passed(p2, obstacle)
    IN  /\ frame_time' = IF step THEN 0 ELSE ft
        /\ player' = p2
        /\ score' = IF pass THEN score + 1 ELSE score
        /\ IF pass
             THEN \E g \in GapYs :
                    obstacle' = ObstacleNew(p2.x + SCREEN_WIDTH, score + 1, g)
             ELSE obstacle' = obstacle
        /\ mode' = IF GameOver(p2, obstacle') THEN "End" ELSE "Playing"
        /\ UNCHANGED quitting
        /\ last' = Handled("play", key, step, pass, step /\ Clamps(player))

\* GameState::tick(&mut self, ctx)
Tick(key, ms) ==
    CASE mode = "Menu" -> MainMenu(key)
      [] mode = "Playing" -> Play(key, ms)
      [] mode = "End" -> Dead(key)

\* main_loop calls tick once per frame until ctx.quitting; a frame whose
\* simulation step would take player.x beyond the bound b is not explored
Frame(key, ms, b) ==
    /\ ~quitting
    /\ (mode = "Playing" /\ GateOpen(frame_time + ms)) => player.x < b
    /\ Tick(key, ms)

\* ---- Spec: every key and both elapsed times in every mode, short runs
MenuFrame == mode = "Menu" /\ \E key \in Keys, ms \in ElapsedMs : Frame(key, ms, MaxX)
PlayFrame == mode = "Playing" /\ \E key \in Keys, ms \in ElapsedMs : Frame(key, ms, MaxX)
DeadFrame == mode = "End" /\ \E key \in Keys, ms \in ElapsedMs : Frame(key, ms, MaxX)

Next == MenuFrame \/ PlayFrame \/ DeadFrame

Spec == Init /\ [][Next]_vars

\* ---- SpecRun: long runs of a user who presses only the keys the screen
\* offers: P in the menus, Space while playing
RunMenuKeys == {"None", "P"}
RunPlayKeys == {"None", "Space"}

RunMenuFrame ==
    mode = "Menu" /\ \E key \in RunMenuKeys, ms \in ElapsedMs : Frame(key, ms, MaxRunX)
RunPlayFrame ==
    mode = "Playing" /\ \E key \in RunPlayKeys, ms \in ElapsedMs : Frame(key, ms, MaxRunX)
RunDeadFrame ==
    mode = "End" /\ \E key \in RunMenuKeys, ms \in ElapsedMs : Frame(key, ms, MaxRunX)

RunNext == RunMenuFrame \/ RunPlayFrame \/ RunDeadFrame

SpecRun == Init /\ [][RunNext]_vars

\* ---- SpecUnit: Obstacle::new and Obstacle::hit_obstacle applied to inputs
\* drawn from bounded sets: every score 0 .. MaxScore, every gap row drawn,
\* a player in the obstacle's column or beside it, on every row
UnitHandled(h, r) == [handler |-> h, result |-> r]

UnitRows == 0 .. (SCREEN_HEIGHT + 2)

UnitInit ==
    /\ mode = "Playing"
    /\ frame_time = 0
    /\ quitting = FALSE
    /\ score \in 0 .. MaxScore
    /\ \E g \in GapYs : obstacle = ObstacleNew(SCREEN_WIDTH, score, g)
    /\ \E x \in {SCREEN_WIDTH - 1, SCREEN_WIDTH, SCREEN_WIDTH + 1}, y \in UnitRows :
          player = PlayerNew(x, y)
    /\ last = UnitHandled("input", FALSE)

\* self.obstacle.hit_obstacle(&self.player)
UnitHitObstacle ==
    /\ last' = UnitHandled("hit_obstacle", HitObstacle(obstacle, player))
    /\ UNCHANGED <<mode, player, obstacle, score, frame_time, quitting>>

\* self.score += 1; self.obstacle = Obstacle::new(x, self.score)
UnitObstacleNew ==
    /\ score < MaxScore
    /\ score' = score + 1
    /\ \E g \in GapYs : obstacle' = ObstacleNew(obstacle.x, score + 1, g)
    /\ last' = UnitHandled("obstacle_new", FALSE)
    /\ UNCHANGED <<mode, player, frame_time, quitting>>

UnitNext == UnitHitObstacle \/ UnitObstacleNew

SpecUnit == UnitInit /\ [][UnitNext]_vars

\* ---- SpecNoFlap: runs in which the flap key is never pressed.  main_loop
\* calls tick on every frame, so a frame in mode Playing is always eventually
\* handled (weak fairness); every elapsed time in ElapsedMs is positive.
NoFlapKeys == Keys \ {"Space"}

NoFlapMenuFrame ==
    mode = "Menu" /\ \E key \in NoFlapKeys, ms \in ElapsedMs : Frame(key, ms, MaxX)
NoFlapPlayFrame ==
    mode = "Playing" /\ \E key \in NoFlapKeys, ms \in ElapsedMs : Frame(key, ms, MaxX)
NoFlapDeadFrame ==
    mode = "End" /\ \E key \in NoFlapKeys, ms \in ElapsedMs : Frame(key, ms, MaxX)

NoFlapNext == NoFlapMenuFrame \/ NoFlapPlayFrame \/ NoFlapDeadFrame

SpecNoFlap == Init /\ [][NoFlapNext]_vars /\ WF_vars(NoFlapPlayFrame)

\* ================================================================== claims
\* a frame handled by main_menu or dead that carried the start key
StartFrame == last.handler \in {"main_menu", "dead"} /\ last.key = "P"

\* C1 (SpecRun): a Menu or End frame carrying the start key P ends in mode
\* Playing with score 0, the player at (5, 25) with velocity 0.0 and the
\* frame-time accumulator at 0, whatever the run before left behind.
C1_StartResetsRun ==
    StartFrame =>
        /\ mode = "Playing"
        /\ score = 0
        /\ player.x = START_X /\ player.y = START_Y
        /\ player.velocity = ZERO_VELOCITY
        /\ frame_time = 0

\* a restart from End, the run being fresh again
C1_Witness ==
    /\ last.handler = "dead" /\ last.key = "P"
    /\ mode = "Playing" /\ score = 0 /\ player = PlayerNew(START_X, START_Y)

\* C2 as stated (Spec): after every start transition the obstacle is one
\* screen width ahead of the player, obstacle.x - player.x = 80.
C2_Original == StartFrame => obstacle.x - player.x = SCREEN_WIDTH

\* C2 amended (Spec): after every start transition the obstacle is in column
\* SCREEN_WIDTH = 80 and the player in column 5, so the obstacle is
\* SCREEN_WIDTH - 5 = 75 columns ahead of the player.
C2_StartObstacleColumn ==
    StartFrame =>
        /\ obstacle.x = SCREEN_WIDTH
        /\ player.x = START_X
        /\ obstacle.x - player.x = SCREEN_WIDTH - START_X

\* a start from the menu, obstacle and player in their start columns
C2_Witness ==
    /\ last.handler = "main_menu" /\ last.key = "P"
    /\ mode = "Playing" /\ obstacle.x = 80 /\ player.x = 5

\* C3 (SpecRun): in a Playing frame, if after the possible simulation step
\* player.x > obstacle.x then the score grows by exactly 1 and the obstacle is
\* replaced by one in column player.x + 80 whose gap size is
\* max(2, 20 - new score); otherwise score and obstacle stay as they were.
C3_PassScores ==
    [][ mode = "Playing" =>
          IF player'.x > obstacle.x
            THEN /\ score' = score + 1
                 /\ obstacle'.x = player'.x + 80
                 /\ obstacle'.size = Max(2, 20 - score')
                 /\ obstacle'.gap_y \in GAP_Y_MIN .. (GAP_Y_END - 1)
            ELSE score' = score /\ obstacle' = obstacle ]_vars

\* the first obstacle has just been passed
C3_Witness ==
    /\ last.handler = "play" /\ last.passed
    /\ mode = "Playing" /\ score = 1 /\ player.x = 81 /\ obstacle.x = 161
    /\ obstacle.size = 19

\* the collision test of the claims, written out on the state
Collides ==
    /\ player.x = obstacle.x
    /\ \/ player.y < obstacle.gap_y - obstacle.size \div 2
       \/ player.y > obstacle.gap_y + obstacle.size \div 2

\* C4 (SpecRun): a Playing frame ends in mode End if and only if, at the end
\* of the frame, player.y > SCREEN_HEIGHT = 50 or the current obstacle
\* collides with the player; otherwise the mode stays Playing.
C4_EndIffDead ==
    [][ mode = "Playing" =>
          /\ mode' \in {"Playing", "End"}
          /\ mode' = "End" <=> (player'.y > 50 \/ Collides') ]_vars

\* a run ended by a collision, the player on the screen
C4_Witness ==
    /\ last.handler = "play" /\ mode = "End"
    /\ Collides /\ player.y <= SCREEN_HEIGHT

\* C5 (SpecUnit): hit_obstacle is true iff player.x = c and (player.y < g - h
\* or player.y > g + h), with c, g the obstacle's column and gap row and
\* h = size / 2; so (c, g-h-1) and (c, g+h+1) collide, (c, g-h) and (c, g+h)
\* do not, and (c+1, g-h-1) does not.
C5_HitObstacle ==
    last.handler = "hit_obstacle" =>
        LET c == obstacle.x
            g == obstacle.gap_y
            h == obstacle.size \div 2
        IN  /\ last.result <=> (player.x = c /\ (player.y < g - h \/ player.y > g + h))
            /\ (player.x = c /\ player.y = g - h - 1) => last.result
            /\ (player.x = c /\ player.y = g + h + 1) => last.result
            /\ (player.x = c /\ player.y = g - h) => ~last.result
            /\ (player.x = c /\ player.y = g + h) => ~last.result
            /\ (player.x = c + 1 /\ player.y = g - h - 1) => ~last.result

\* the row just above the gap, in the obstacle's column, reported as a hit
C5_Witness ==
    /\ last.handler = "hit_obstacle" /\ last.result
    /\ player.x = obstacle.x
    /\ player.y = obstacle.gap_y - obstacle.size \div 2 - 1

\* C6 (Spec): the mode starts as Menu and the only mode changes are
\* Menu -> Playing (start key), Playing -> End (below the bottom row, or a
\* collision) and End -> Playing (start key); nothing ever leads to Menu and
\* Menu never leads to End.
C6_ModeChanges ==
    /\ mode = "Menu"
    /\ [][ /\ mode' = "Menu" => mode = "Menu"
           /\ (mode = "Menu" /\ mode' # "Menu") =>
                  (mode' = "Playing" /\ last'.handler = "main_menu" /\ last'.key = "P")
           /\ (mode = "Playing" /\ mode' # "Playing") =>
                  (mode' = "End" /\ last'.handler = "play"
                   /\ (player'.y > SCREEN_HEIGHT \/ Collides'))
           /\ (mode = "End" /\ mode' # "End") =>
                  (mode' = "Playing" /\ last'.handler = "dead" /\ last'.key = "P") ]_vars

\* all three changes have happened: a run was started, ended, and started again
C6_Witness == mode = "Playing" /\ last.handler = "dead" /\ ~quitting

\* C7 as stated (Spec): the player's velocity never exceeds 2.0.
C7_Original == player.velocity <= TERMINAL_VELOCITY

\* C8 as stated (Spec): flap() followed immediately by one gravity_and_move()
\* moves a player with y >= 2 up by exactly two rows.
C8_Original ==
    [][ ( /\ mode = "Playing"
          /\ player.velocity = FLAP_VELOCITY
          /\ player.y >= 2
          /\ last'.handler = "play" /\ last'.stepped )
        => player'.y = player.y - 2 ]_vars

\* C9 (SpecRun): player.y is never negative, also when y plus the integer
\* part of the velocity is negative (it is then clamped to 0).
C9_RowNeverNegative == player.y >= 0

\* a simulation step that took the `y < 0` branch
C9_Witness == last.handler = "play" /\ last.stepped /\ last.clamped /\ player.y = 0

\* C10 as stated (SpecUnit): the gap half-size of an obstacle generated at a
\* score is max(1, 20/2 - score/2), in integer division.
C10_Original ==
    last.handler = "obstacle_new" =>
        HalfSize(obstacle) = Max(1, 20 \div 2 - score \div 2)

\* C10 amended (SpecUnit): the gap half-size of an obstacle generated at a
\* score is max(1, (20 - score)/2), in integer division, and it does not grow
\* as the score grows.
C10_HalfSize ==
    /\ [](last.handler = "obstacle_new" =>
            obstacle.size \div 2 = Max(1, (20 - score) \div 2))
    /\ [][ last'.handler = "obstacle_new" =>
             (score' > score /\ obstacle'.size \div 2 <= obstacle.size \div 2) ]_vars

\* an obstacle generated at an odd score, where the two formulas differ
C10_Witness ==
    /\ last.handler = "obstacle_new" /\ score = 1
    /\ obstacle.size = 19 /\ obstacle.size \div 2 = 9

\* a frame handled by play
PlayedFrame == mode = "Playing" /\ last'.handler = "play"

\* a frame handled by main_menu or dead
MenuOrDeadFrame == mode \in {"Menu", "End"} /\ last'.handler \in {"main_menu", "dead"}

\* C11 (Spec): the start key P in a Playing frame does not reinitialise the
\* run: player, score and obstacle change only as the simulation dictates
\* (the player by one gravity_and_move if the frame stepped, else not at all);
\* the flap key, any other key but P and Q, or no key in a Menu or End frame
\* leaves mode, score, player, obstacle and the time accumulator unchanged.
C11_KeysPerMode ==
    [][ /\ (PlayedFrame /\ last'.key = "P") =>
              /\ mode' # "Menu"
              /\ player' = IF last'.stepped THEN GravityAndMove(player) ELSE player
              /\ IF last'.passed
                   THEN score' = score + 1 /\ obstacle'.x = player'.x + SCREEN_WIDTH
                   ELSE score' = score /\ obstacle' = obstacle
        /\ (MenuOrDeadFrame /\ last'.key \in {"Space", "Other", "None"}) =>
              UNCHANGED <<mode, score, player, obstacle, frame_time>> ]_vars

\* a Playing frame that carried P, the run going on beyond its start column
C11_Witness ==
    /\ last.handler = "play" /\ last.key = "P"
    /\ mode = "Playing" /\ player.x > START_X /\ player.y # START_Y

\* C12 (Spec): a Playing frame adds its elapsed time to the accumulator; if
\* the sum exceeds 75 ms the accumulator is reset to 0 and gravity_and_move
\* runs exactly once (also for 300 ms, four thresholds); otherwise no step
\* runs and player.x and player.y are unchanged.
C12_OneStepPerGate ==
    [][ \A key \in Keys, ms \in ElapsedMs :
          (mode = "Playing" /\ Play(key, ms)) =>
              IF frame_time + ms > 75
                THEN /\ frame_time' = 0
                     /\ last'.stepped
                     /\ player'.x = player.x + 1
                     /\ player'.y = Max(0, player.y + AsI32(Gravity(player.velocity)))
                ELSE /\ frame_time' = frame_time + ms
                     /\ ~last'.stepped
                     /\ player'.x = player.x /\ player'.y = player.y ]_vars

\* the first simulation step of a run
C12_Witness ==
    /\ last.handler = "play" /\ last.stepped
    /\ frame_time = 0 /\ player.x = START_X + 1

\* C13 (Spec): at the end of every Playing frame that carried the flap key
\* the velocity is exactly -2.0, whether or not the frame stepped, and the
\* flap moves the player neither in x nor in y: the position is that of the
\* simulation step alone.
C13_FlapSetsVelocityOnly ==
    [][ (PlayedFrame /\ last'.key = "Space") =>
          /\ player'.velocity = (-2) * Unit
          /\ IF last'.stepped
               THEN /\ player'.x = GravityAndMove(player).x
                    /\ player'.y = GravityAndMove(player).y
               ELSE player'.x = player.x /\ player'.y = player.y ]_vars

\* a flap in a frame below the time gate
C13_Witness ==
    /\ last.handler = "play" /\ last.key = "Space" /\ ~last.stepped
    /\ mode = "Playing" /\ player.velocity = FLAP_VELOCITY /\ frame_time = 75

\* C14 (SpecRun): in every reachable state the obstacle's gap size is
\* max(2, 20 - score) for the current score, hence within 2 .. 20.
C14_GapSizeFollowsScore ==
    /\ obstacle.size = Max(2, 20 - score)
    /\ obstacle.size \in 2 .. 20

\* the second obstacle of a run, sized by score 1
C14_Witness == score = 1 /\ obstacle.size = 19 /\ obstacle.x > SCREEN_WIDTH

\* C15 (Spec): a Menu or End frame carrying the quit key Q sets the exit flag
\* and leaves mode, score, player and obstacle unchanged; no frame handled in
\* mode Playing sets the exit flag, whatever its key.
C15_QuitIsNoTransition ==
    [][ /\ (MenuOrDeadFrame /\ last'.key = "Q") =>
              (quitting' /\ UNCHANGED <<mode, score, player, obstacle>>)
        /\ mode = "Playing" => ~quitting' ]_vars

\* the quit key pressed on the death screen
C15_Witness == quitting /\ last.handler = "dead" /\ last.key = "Q" /\ mode = "End"

\* C16 (Spec): player.x is increased by exactly one by each simulation step,
\* is changed by nothing else in Playing or End, and is reset to 5 only by a
\* start transition; so within a run it never decreases.
C16_DistanceMonotone ==
    [][ IF MenuOrDeadFrame /\ last'.key = "P"
          THEN player'.x = 5
          ELSE /\ player'.x = IF last'.stepped THEN player.x + 1 ELSE player.x
               /\ player'.x >= player.x ]_vars

\* the tenth simulation step of a run
C16_Witness ==
    /\ last.handler = "play" /\ last.stepped /\ player.x = START_X + 10

\* C17 (SpecRun): in every mode the obstacle is at or ahead of the player
\* and at most one screen width ahead: player.x <= obstacle.x <= player.x + 80.
C17_ObstacleAhead ==
    /\ player.x <= obstacle.x
    /\ obstacle.x <= player.x + 80

\* the player alive in the obstacle's column
C17_Witness == mode = "Playing" /\ player.x = obstacle.x /\ last.handler = "play"

\* whether the player is within the gap rows of the obstacle, boundary included
InGap ==
    /\ player.y >= obstacle.gap_y - obstacle.size \div 2
    /\ player.y <= obstacle.gap_y + obstacle.size \div 2

\* C18 (SpecRun): whenever the mode is Playing the player is alive,
\* 0 <= player.y <= 50 and no collision with the current obstacle; and the
\* score is incremented only from a state in which the player was in the
\* obstacle's column and inside its gap, boundary included.
C18_AliveWhilePlaying ==
    /\ [](mode = "Playing" => (player.y >= 0 /\ player.y <= 50 /\ ~Collides))
    /\ [][ score' = score + 1 =>
             (mode = "Playing" /\ player.x = obstacle.x /\ InGap
              /\ player'.x = player.x + 1) ]_vars

\* the player in the obstacle's column on the lowest row of the gap
C18_Witness ==
    /\ mode = "Playing" /\ player.x = obstacle.x
    /\ player.y = obstacle.gap_y + obstacle.size \div 2

\* C19 (SpecNoFlap): a run in which the flap key is never pressed, every
\* frame having a positive elapsed time, always ends: from mode Playing the
\* mode eventually becomes End with the player below the bottom row, the
\* score still 0 and the first obstacle's column not yet reached.
C19_NoFlapRunEnds ==
    (mode = "Playing") ~>
        (mode = "End" /\ player.y > SCREEN_HEIGHT /\ score = 0
         /\ player.x < obstacle.x /\ obstacle.x = SCREEN_WIDTH)

\* the end of a run without a flap: twenty steps of free fall
C19_Witness ==
    /\ mode = "End" /\ last.handler = "play" /\ score = 0
    /\ player.y > SCREEN_HEIGHT /\ player.x = START_X + 20

====
